---- MODULE Spec2Model ----
(***************************************************************************)
(* Conversation / session manager of the OpenHeart companion backend:      *)
(* AICompanion (in-memory Conversation Store and Response Generator),      *)
(* MeetingIntegration (in-memory meeting rooms) and the request handlers   *)
(* of routes/ai_sessions.py over the persisted ai_sessions and             *)
(* session_messages tables.                                                *)
(*                                                                         *)
(* Requests are handled one at a time: every handler is one action, from   *)
(* its session query to its response. Writes a handler has added to its    *)
(* ORM session reach the tables only at db.commit(); what is uncommitted    *)
(* when the handler leaves is never persisted.                             *)
(***************************************************************************)
EXTENDS Integers, Sequences, FiniteSets, TLC

\* ------------------------------------------------------------------ bounds
\* Specification Spec: session rows and answered texts.
MaxSessions == 1
MaxExchanges == 2
\* Specification SpecPair
PairSessions == 2
PairExchanges == 1
\* Specification SpecWindow
WinSessions == 1
WinExchanges == 11

\* Specification SpecErrors: session rows, answered texts, payment rows
ErrSessions == 1
ErrExchanges == 1
MaxPayments == 1
\* Specification SpecFrame: session rows, answered texts
FrameSessions == 2
FrameExchanges == 2
\* Specification SpecGreeting: session rows, answered texts
GreetSessions == 1
GreetExchanges == 1
\* Specification SpecTable: the characters of a message whose case changes
MaxFlips == 4
\* Specification SpecUpstream: session rows, answered texts
UpSessions == 1
UpExchanges == 2
\* Specification SpecAsync: session rows, answered texts, waiting requests
AsyncSessions == 1
AsyncExchanges == 2
MaxSuspended == 2
\* Specification SpecClock: session rows and the seconds the clock runs
ClockSessions == 1
LoopSessions == 2
OwnerSessions == 2
OwnerExchanges == 2
LoopTime == 15
MaxTime == 120

\* ------------------------------------------------------- program constants
max_history_length == 20

Users == {"u1", "u2"}
Platforms == {"webrtc", "zoom"}
\* None: an optional field that was not sent, a column that was never filled
NoValue == "None"
NoLanguage == NoValue
PreferredLanguages == {NoLanguage, "de"}
NULL == -1

\* settings.ZOOM_API_KEY / GOOGLE_MEET_API_KEY are unset by default
zoom_configured == FALSE
google_meet_configured == FALSE

VARIABLES
    now,                  \* the clock, in seconds
    premium,              \* users.is_premium
    conversation_history, \* AICompanion.conversation_history: user -> list
    sessions,             \* table ai_sessions, row i has id i
    messages,             \* table session_messages, grouped by session id
    active_meetings,      \* MeetingIntegration.active_meetings
    sent,                 \* per user: number of texts answered so far
    chron,                \* per user: every entry stored since the last clear
    exchanges,            \* per session: number of exchanges answered 200
    payments,             \* table payments
    probe,                \* the latest direct call of a pure function
    suspended,            \* voice requests waiting at await audio_file.read()
    listening,            \* the tasks of _ai_listening_loop, one per joined bot
    last                  \* the record of the latest request

vars == <<now, premium, conversation_history, sessions, messages,
          active_meetings, sent, chron, exchanges, payments, probe, suspended,
          listening, last>>

\* ------------------------------------------------------------ pure helpers
Min(a, b) == IF a < b THEN a ELSE b

\* list[-n:] for n > 0
LastN(s, n) == IF Len(s) <= n THEN s ELSE SubSeq(s, Len(s) - n + 1, Len(s))

Entry(role, content) == [role |-> role, content |-> content]

\* The text of a user's k-th message and the upstream reply to it: opaque,
\* pairwise distinct contents.
UserText(k) == <<"msg", k>>
ReplyText(k) == <<"reply", k>>

\* langdetect.detect with DetectorFactory.seed = 0 is a function of the text:
\* here German, English, Arabic (supported, but without a prompt of its own)
\* and Catalan (outside the table), by turns.
LibDetect(text) ==
    CASE text[2] % 4 = 1 -> "de"
      [] text[2] % 4 = 2 -> "en"
      [] text[2] % 4 = 3 -> "ar"
      [] OTHER -> "ca"

supported_languages ==
    {"en", "de", "es", "fr", "it", "pt", "ru", "ja", "ko", "zh",
     "ar", "hi", "nl", "sv", "no", "da", "fi", "pl", "tr", "he"}

detect_language(text) ==
    IF LibDetect(text) \in supported_languages THEN LibDetect(text) ELSE "en"

language_greetings ==
    "en" :>
       <<"H", "e", "l", "l", "o", "!", " ", "I", "'", "m", " ", "h", "e",
         "r", "e", " ", "t", "o", " ", "l", "i", "s", "t", "e", "n", " ",
         "a", "n", "d", " ", "s", "u", "p", "p", "o", "r", "t", " ", "y",
         "o", "u", ".", " ", "H", "o", "w", " ", "a", "r", "e", " ", "y",
         "o", "u", " ", "f", "e", "e", "l", "i", "n", "g", " ", "t", "o",
         "d", "a", "y", "?">> @@
    "de" :>
       <<"H", "a", "l", "l", "o", "!", " ", "I", "c", "h", " ", "b", "i",
         "n", " ", "h", "i", "e", "r", ",", " ", "u", "m", " ", "z", "u",
         "z", "u", "h", "U+00F6", "r", "e", "n", " ", "u", "n", "d", " ",
         "d", "i", "c", "h", " ", "z", "u", " ", "u", "n", "t", "e", "r",
         "s", "t", "U+00FC", "t", "z", "e", "n", ".", " ", "W", "i", "e",
         " ", "f", "U+00FC", "h", "l", "s", "t", " ", "d", "u", " ", "d",
         "i", "c", "h", " ", "h", "e", "u", "t", "e", "?">> @@
    "es" :>
       <<"U+00A1", "H", "o", "l", "a", "!", " ", "E", "s", "t", "o", "y",
         " ", "a", "q", "u", "U+00ED", " ", "p", "a", "r", "a", " ", "e",
         "s", "c", "u", "c", "h", "a", "r", " ", "y", " ", "a", "p", "o",
         "y", "a", "r", "t", "e", ".", " ", "U+00BF", "C", "U+00F3", "m",
         "o", " ", "t", "e", " ", "s", "i", "e", "n", "t", "e", "s", " ",
         "h", "o", "y", "?">> @@
    "fr" :>
       <<"B", "o", "n", "j", "o", "u", "r", "!", " ", "J", "e", " ", "s",
         "u", "i", "s", " ", "l", "U+00E0", " ", "p", "o", "u", "r", " ",
         "U+00E9", "c", "o", "u", "t", "e", "r", " ", "e", "t", " ", "v",
         "o", "u", "s", " ", "s", "o", "u", "t", "e", "n", "i", "r", ".",
         " ", "C", "o", "m", "m", "e", "n", "t", " ", "v", "o", "u", "s",
         " ", "s", "e", "n", "t", "e", "z", "-", "v", "o", "u", "s", " ",
         "a", "u", "j", "o", "u", "r", "d", "'", "h", "u", "i", "?">> @@
    "it" :>
       <<"C", "i", "a", "o", "!", " ", "S", "o", "n", "o", " ", "q", "u",
         "i", " ", "p", "e", "r", " ", "a", "s", "c", "o", "l", "t", "a",
         "r", "e", " ", "e", " ", "s", "u", "p", "p", "o", "r", "t", "a",
         "r", "t", "i", ".", " ", "C", "o", "m", "e", " ", "t", "i", " ",
         "s", "e", "n", "t", "i", " ", "o", "g", "g", "i", "?">> @@
    "pt" :>
       <<"O", "l", "U+00E1", "!", " ", "E", "s", "t", "o", "u", " ", "a",
         "q", "u", "i", " ", "p", "a", "r", "a", " ", "o", "u", "v", "i",
         "r", " ", "e", " ", "a", "p", "o", "i", "U+00E1", "-", "l", "o",
         ".", " ", "C", "o", "m", "o", " ", "v", "o", "c", "U+00EA", " ",
         "e", "s", "t", "U+00E1", " ", "s", "e", " ", "s", "e", "n", "t",
         "i", "n", "d", "o", " ", "h", "o", "j", "e", "?">> @@
    "ru" :>
       <<"U+041F", "U+0440", "U+0438", "U+0432", "U+0435", "U+0442", "!",
         " ", "U+042F", " ", "U+0437", "U+0434", "U+0435", "U+0441",
         "U+044C", ",", " ", "U+0447", "U+0442", "U+043E", "U+0431",
         "U+044B", " ", "U+0441", "U+043B", "U+0443", "U+0448", "U+0430",
         "U+0442", "U+044C", " ", "U+0438", " ", "U+043F", "U+043E",
         "U+0434", "U+0434", "U+0435", "U+0440", "U+0436", "U+0438",
         "U+0432", "U+0430", "U+0442", "U+044C", " ", "U+0432", "U+0430",
         "U+0441", ".", " ", "U+041A", "U+0430", "U+043A", " ", "U+0432",
         "U+044B", " ", "U+0441", "U+0435", "U+0431", "U+044F", " ",
         "U+0447", "U+0443", "U+0432", "U+0441", "U+0442", "U+0432",
         "U+0443", "U+0435", "U+0442", "U+0435", " ", "U+0441", "U+0435",
         "U+0433", "U+043E", "U+0434", "U+043D", "U+044F", "?">> @@
    "ja" :>
       <<"U+3053", "U+3093", "U+306B", "U+3061", "U+306F", "U+FF01",
         "U+79C1", "U+306F", "U+3042", "U+306A", "U+305F", "U+306E",
         "U+8A71", "U+3092", "U+805E", "U+304D", "U+3001", "U+30B5",
         "U+30DD", "U+30FC", "U+30C8", "U+3059", "U+308B", "U+305F",
         "U+3081", "U+306B", "U+3053", "U+3053", "U+306B", "U+3044",
         "U+307E", "U+3059", "U+3002", "U+4ECA", "U+65E5", "U+306F",
         "U+3069", "U+3093", "U+306A", "U+6C17", "U+5206", "U+3067",
         "U+3059", "U+304B", "U+FF1F">> @@
    "ko" :>
       <<"U+C548", "U+B155", "U+D558", "U+C138", "U+C694", "!", " ",
         "U+C800", "U+B294", " ", "U+B2F9", "U+C2E0", "U+C758", " ",
         "U+C774", "U+C57C", "U+AE30", "U+B97C", " ", "U+B4E3", "U+ACE0",
         " ", "U+C9C0", "U+C6D0", "U+D558", "U+AE30", " ", "U+C704",
         "U+D574", " ", "U+C5EC", "U+AE30", " ", "U+C788", "U+C2B5",
         "U+B2C8", "U+B2E4", ".", " ", "U+C624", "U+B298", " ", "U+AE30",
         "U+BD84", "U+C774", " ", "U+C5B4", "U+B5A0", "U+C138", "U+C694",
         "?">> @@
    "zh" :>
       <<"U+4F60", "U+597D", "U+FF01", "U+6211", "U+5728", "U+8FD9",
         "U+91CC", "U+503E", "U+542C", "U+5E76", "U+652F", "U+6301",
         "U+4F60", "U+3002", "U+4F60", "U+4ECA", "U+5929", "U+611F",
         "U+89C9", "U+600E", "U+4E48", "U+6837", "U+FF1F">> @@
    "ar" :>
       <<"U+0645", "U+0631", "U+062D", "U+0628", "U+0627", "!", " ",
         "U+0623", "U+0646", "U+0627", " ", "U+0647", "U+0646", "U+0627",
         " ", "U+0644", "U+0644", "U+0627", "U+0633", "U+062A", "U+0645",
         "U+0627", "U+0639", " ", "U+0648", "U+062F", "U+0639", "U+0645",
         "U+0643", ".", " ", "U+0643", "U+064A", "U+0641", " ", "U+062A",
         "U+0634", "U+0639", "U+0631", " ", "U+0627", "U+0644", "U+064A",
         "U+0648", "U+0645", "U+061F">> @@
    "hi" :>
       <<"U+0928", "U+092E", "U+0938", "U+094D", "U+0924", "U+0947", "!",
         " ", "U+092E", "U+0948", "U+0902", " ", "U+092F", "U+0939",
         "U+093E", "U+0901", " ", "U+0906", "U+092A", "U+0915", "U+0940",
         " ", "U+092C", "U+093E", "U+0924", " ", "U+0938", "U+0941",
         "U+0928", "U+0928", "U+0947", " ", "U+0914", "U+0930", " ",
         "U+0906", "U+092A", "U+0915", "U+093E", " ", "U+0938", "U+093E",
         "U+0925", " ", "U+0926", "U+0947", "U+0928", "U+0947", " ",
         "U+0915", "U+0947", " ", "U+0932", "U+093F", "U+090F", " ",
         "U+0939", "U+0942", "U+0901", "U+0964", " ", "U+0906", "U+091C",
         " ", "U+0906", "U+092A", " ", "U+0915", "U+0948", "U+0938",
         "U+093E", " ", "U+092E", "U+0939", "U+0938", "U+0942", "U+0938",
         " ", "U+0915", "U+0930", " ", "U+0930", "U+0939", "U+0947", " ",
         "U+0939", "U+0948", "U+0902", "?">> @@
    "nl" :>
       <<"H", "a", "l", "l", "o", "!", " ", "I", "k", " ", "b", "e", "n",
         " ", "h", "i", "e", "r", " ", "o", "m", " ", "t", "e", " ", "l",
         "u", "i", "s", "t", "e", "r", "e", "n", " ", "e", "n", " ", "j",
         "e", " ", "t", "e", " ", "s", "t", "e", "u", "n", "e", "n", ".",
         " ", "H", "o", "e", " ", "v", "o", "e", "l", " ", "j", "e", " ",
         "j", "e", " ", "v", "a", "n", "d", "a", "a", "g", "?">> @@
    "sv" :>
       <<"H", "e", "j", "!", " ", "J", "a", "g", " ", "U+00E4", "r", " ",
         "h", "U+00E4", "r", " ", "f", "U+00F6", "r", " ", "a", "t", "t",
         " ", "l", "y", "s", "s", "n", "a", " ", "o", "c", "h", " ", "s",
         "t", "U+00F6", "d", "j", "a", " ", "d", "i", "g", ".", " ", "H",
         "u", "r", " ", "m", "U+00E5", "r", " ", "d", "u", " ", "i", "d",
         "a", "g", "?">> @@
    "no" :>
       <<"H", "e", "i", "!", " ", "J", "e", "g", " ", "e", "r", " ", "h",
         "e", "r", " ", "f", "o", "r", " ", "U+00E5", " ", "l", "y", "t",
         "t", "e", " ", "o", "g", " ", "s", "t", "U+00F8", "t", "t", "e",
         " ", "d", "e", "g", ".", " ", "H", "v", "o", "r", "d", "a", "n",
         " ", "h", "a", "r", " ", "d", "u", " ", "d", "e", "t", " ", "i",
         " ", "d", "a", "g", "?">> @@
    "da" :>
       <<"H", "e", "j", "!", " ", "J", "e", "g", " ", "e", "r", " ", "h",
         "e", "r", " ", "f", "o", "r", " ", "a", "t", " ", "l", "y", "t",
         "t", "e", " ", "o", "g", " ", "s", "t", "U+00F8", "t", "t", "e",
         " ", "d", "i", "g", ".", " ", "H", "v", "o", "r", "d", "a", "n",
         " ", "h", "a", "r", " ", "d", "u", " ", "d", "e", "t", " ", "i",
         " ", "d", "a", "g", "?">> @@
    "fi" :>
       <<"H", "e", "i", "!", " ", "O", "l", "e", "n", " ", "t", "U+00E4",
         "U+00E4", "l", "l", "U+00E4", " ", "k", "u", "u", "n", "t", "e",
         "l", "e", "m", "a", "s", "s", "a", " ", "j", "a", " ", "t", "u",
         "k", "e", "m", "a", "s", "s", "a", " ", "s", "i", "n", "u", "a",
         ".", " ", "M", "i", "l", "t", "U+00E4", " ", "s", "i", "n", "u",
         "s", "t", "a", " ", "t", "u", "n", "t", "u", "u", " ", "t",
         "U+00E4", "n", "U+00E4", "U+00E4", "n", "?">> @@
    "pl" :>
       <<"C", "z", "e", "U+015B", "U+0107", "!", " ", "j", "e", "s", "t",
         "e", "m", " ", "t", "u", "t", "a", "j", ",", " ", "U+017C", "e",
         "b", "y", " ", "s", "U+0142", "u", "c", "h", "a", "U+0107", " ",
         "i", " ", "w", "s", "p", "i", "e", "r", "a", "U+0107", " ", "c",
         "i", "U+0119", ".", " ", "J", "a", "k", " ", "s", "i", "U+0119",
         " ", "d", "z", "i", "U+015B", " ", "c", "z", "u", "j", "e", "s",
         "z", "?">> @@
    "tr" :>
       <<"M", "e", "r", "h", "a", "b", "a", "!", " ", "S", "e", "n", "i",
         " ", "d", "i", "n", "l", "e", "m", "e", "k", " ", "v", "e", " ",
         "d", "e", "s", "t", "e", "k", "l", "e", "m", "e", "k", " ", "i",
         "U+00E7", "i", "n", " ", "b", "u", "r", "a", "d", "a", "y",
         "U+0131", "m", ".", " ", "B", "u", "g", "U+00FC", "n", " ", "n",
         "a", "s", "U+0131", "l", " ", "h", "i", "s", "s", "e", "d", "i",
         "y", "o", "r", "s", "u", "n", "?">> @@
    "he" :>
       <<"U+05E9", "U+05DC", "U+05D5", "U+05DD", "!", " ", "U+05D0",
         "U+05E0", "U+05D9", " ", "U+05DB", "U+05D0", "U+05DF", " ",
         "U+05DB", "U+05D3", "U+05D9", " ", "U+05DC", "U+05D4", "U+05E7",
         "U+05E9", "U+05D9", "U+05D1", " ", "U+05D5", "U+05DC", "U+05EA",
         "U+05DE", "U+05D5", "U+05DA", " ", "U+05D1", "U+05DA", ".", " ",
         "U+05D0", "U+05D9", "U+05DA", " ", "U+05D0", "U+05EA", "U+05D4",
         " ", "U+05DE", "U+05E8", "U+05D2", "U+05D9", "U+05E9", " ",
         "U+05D4", "U+05D9", "U+05D5", "U+05DD", "?">>

\* A lookup that answers every code with the English greeting.
get_greeting_english(language_code) == language_greetings["en"]

\* language_greetings.get(language_code, language_greetings['en'])
get_greeting(language_code) ==
    IF language_code \in DOMAIN language_greetings
    THEN language_greetings[language_code]
    ELSE language_greetings["en"]

\* ------------------------------------------------------ system prompts
\* base_prompts of get_system_prompt: the languages that have a prompt of
\* their own. A text is a list of parts: a literal is one part, an f-string
\* one part for each literal piece and each inserted value.
prompt_languages ==
    {"en", "de", "es", "fr", "it", "pt", "ru", "ja", "ko", "zh"}

base_prompts == [l \in prompt_languages |-> <<"base_prompt", l>>]

\* Python truth of an optional string
Truthy(v) == v \notin {NoValue, ""}

ContextKeys == {"preferred_name", "interests", "emotional_needs"}

\* user_context.get(key)
ContextGet(user_context, key) ==
    IF key \in DOMAIN user_context THEN user_context[key] ELSE NoValue

\* The clause get_system_prompt appends for one field of the context.
ContextClause(user_context, key, label) ==
    IF Truthy(ContextGet(user_context, key))
    THEN <<label, user_context[key]>>
    ELSE << >>

\* A table lookup that fails for a language without a prompt.
base_prompt_strict(language) ==
    IF language \in DOMAIN base_prompts
    THEN base_prompts[language]
    ELSE <<"KeyError", language>>

\* base_prompts.get(language, base_prompts['en'])
base_prompt(language) ==
    IF language \in DOMAIN base_prompts
    THEN base_prompts[language]
    ELSE base_prompts["en"]

\* get_system_prompt. A context is a dictionary over some of ContextKeys; the
\* dictionary without keys stands for {} and for None, which are both false.
get_system_prompt(language, user_context) ==
    IF DOMAIN user_context = {}
    THEN <<base_prompt(language)>>
    ELSE <<base_prompt(language)>>
            \o ContextClause(user_context, "interests", "\n\nUser interests: ")
            \o ContextClause(user_context, "emotional_needs",
                             "\nUser's emotional needs: ")
            \o ContextClause(user_context, "preferred_name",
                             "\nUser prefers to be called: ")

\* user_profiles: register_user creates the row with display_name set and the
\* other columns empty; u1 has filled in interests since.
user_profiles ==
    [u \in Users |->
        IF u = "u1"
        THEN [display_name |-> "Ann", interests |-> "books",
              emotional_needs |-> NoValue]
        ELSE [display_name |-> "Bob", interests |-> NoValue,
              emotional_needs |-> NoValue]]

\* The user_context a handler builds from the caller's profile row.
UserContextOf(u) ==
    [k \in ContextKeys |->
        CASE k = "preferred_name" -> user_profiles[u].display_name
          [] k = "interests" -> user_profiles[u].interests
          [] OTHER -> user_profiles[u].emotional_needs]

\* ------------------------------------------------------ Conversation Store
HistoryFor(store, u) == IF u \in DOMAIN store THEN store[u] ELSE <<>>

StorePut(store, u, h) ==
    [v \in DOMAIN store \cup {u} |-> IF v = u THEN h ELSE store[v]]

\* An exception: its class and its message, a list of parts.
Exc(type, message) == [type |-> type, message |-> message]

NoExc == Exc("none", << >>)

\* A clear that deletes nothing.
clear_nothing(store, u) == [exc |-> NoExc, store |-> store]

\* A clear that empties the whole dictionary.
clear_everyone(store, u) == [exc |-> NoExc, store |-> << >>]

\* A clear that deletes without looking whether the key is there.
clear_unguarded(store, u) ==
    IF u \in DOMAIN store
    THEN [exc |-> NoExc, store |-> [v \in DOMAIN store \ {u} |-> store[v]]]
    ELSE [exc |-> Exc("KeyError", <<u>>), store |-> store]

\* clear_conversation_history: the exception it raises (none) and the store
\* it leaves.
clear_conversation_history(store, u) ==
    IF u \in DOMAIN store
    THEN [exc |-> NoExc, store |-> [v \in DOMAIN store \ {u} |-> store[v]]]
    ELSE [exc |-> NoExc, store |-> store]

\* history.extend([...]) of generate_response
ExtendHistory(history, user_message, ai_response) ==
    history \o <<Entry("user", user_message), Entry("assistant", ai_response)>>

\* A window that keeps the oldest entries instead of the newest.
KeepOldest(history) ==
    IF Len(history) > max_history_length
    THEN SubSeq(history, 1, max_history_length)
    ELSE history

\* The slice is dropped: the list extended in place stays as it is.
KeepEverything(history) == history

\* A window one entry short of the limit.
KeepOdd(history) ==
    IF Len(history) > max_history_length
    THEN LastN(history, max_history_length - 1)
    ELSE history

\* "Keep only recent history"
KeepRecent(history) ==
    IF Len(history) > max_history_length
    THEN LastN(history, max_history_length)
    ELSE history

\* What the upstream call of generate_response does: it answers, or it raises
\* a rate-limit error, another error of the API, or anything else.
UpstreamFailures == {"rate_limit", "api_error", "error"}
Upstream == {"ok"} \cup UpstreamFailures

\* The error the upstream call raises: its class and its own text.
UpstreamError(upstream, text) ==
    CASE upstream = "rate_limit" -> Exc("RateLimitError", <<text>>)
      [] upstream = "api_error" -> Exc("APIConnectionError", <<text>>)
      [] OTHER -> Exc("RuntimeError", <<text>>)

\* The classes of the openai package an error is an instance of.
Bases(type) ==
    CASE type = "RateLimitError" ->
            {"RateLimitError", "APIStatusError", "APIError", "OpenAIError",
             "Exception"}
      [] type = "APIConnectionError" ->
            {"APIConnectionError", "APIError", "OpenAIError", "Exception"}
      [] OTHER -> {type, "Exception"}

rate_limit_message ==
    <<"I'm receiving too many requests right now. Please try again in a moment.">>
api_error_message ==
    <<"I'm having trouble connecting to my AI service. Please try again.">>
unexpected_message ==
    <<"I'm experiencing technical difficulties. Please try again later.">>

\* The except clauses with the clause for APIError first.
GenerateExceptApiFirst(error) ==
    IF "APIError" \in Bases(error.type)
    THEN Exc("AIServiceException", api_error_message)
    ELSE IF "RateLimitError" \in Bases(error.type)
    THEN Exc("AIServiceException", rate_limit_message)
    ELSE Exc("AIServiceException", unexpected_message)

\* The except clauses of generate_response, in their order: every failure of
\* the try body becomes an AIServiceException.
GenerateExcept(error) ==
    IF "RateLimitError" \in Bases(error.type)
    THEN Exc("AIServiceException", rate_limit_message)
    ELSE IF "APIError" \in Bases(error.type)
    THEN Exc("AIServiceException", api_error_message)
    ELSE Exc("AIServiceException", unexpected_message)

\* A generator that stores the user's turn before it calls upstream.
generate_response_early(store, user_message, language, u, user_context, upstream, text, reply) ==
    IF upstream = "ok"
    THEN [exc |-> NoExc, reply |-> reply,
          prompt |-> get_system_prompt(language, user_context),
          store |-> StorePut(store, u,
                       KeepRecent(ExtendHistory(HistoryFor(store, u),
                                                user_message, reply)))]
    ELSE [exc |-> GenerateExcept(UpstreamError(upstream, text)),
          reply |-> reply,
          prompt |-> get_system_prompt(language, user_context),
          store |-> StorePut(store, u,
                       HistoryFor(store, u)
                           \o <<Entry("user", user_message)>>)]

\* generate_response: the exception it raises (none when it returns), the
\* reply, the system prompt it sent upstream and the store it leaves.
generate_response(store, user_message, language, u, user_context, upstream, text, reply) ==
    IF upstream = "ok"
    THEN [exc |-> NoExc, reply |-> reply,
          prompt |-> get_system_prompt(language, user_context),
          store |-> StorePut(store, u,
                       KeepRecent(ExtendHistory(HistoryFor(store, u),
                                                user_message, reply)))]
    ELSE [exc |-> GenerateExcept(UpstreamError(upstream, text)),
          reply |-> reply,
          prompt |-> get_system_prompt(language, user_context),
          store |-> store]

\* ------------------------------------------------------------ error model
\* HTTPException(status_code, detail)
HTTPException(status_code, detail) ==
    [type |-> "HTTPException", message |-> <<detail>>,
     status_code |-> status_code]

\* exceptions.py: the status code the registered handlers answer with.
StatusOf(exc) ==
    CASE exc.type = "none" -> 200
      [] exc.type = "HTTPException" -> exc.status_code
      [] exc.type = "AIServiceException" -> 503
      [] exc.type = "MeetingException" -> 503
      [] exc.type = "VoiceProcessingException" -> 422
      [] exc.type = "PaymentException" -> 402
      [] OTHER -> 500

OpenHeartExceptions ==
    {"AIServiceException", "MeetingException", "VoiceProcessingException",
     "PaymentException"}

\* The "detail" of the body the registered handlers answer with:
\* exc.message for an OpenHeartException, exc.detail for an HTTPException, a
\* fixed text for anything else.
DetailOf(exc) ==
    CASE exc.type = "none" -> << >>
      [] exc.type = "HTTPException" -> exc.message
      [] exc.type \in OpenHeartExceptions -> exc.message
      [] OTHER -> <<"An unexpected error occurred. Please try again later.">>

\* except AIServiceException: raise / except Exception: ... raise 500
SendTextExcept(raised) ==
    IF raised.type \in {"none", "AIServiceException"} THEN raised
    ELSE HTTPException(500, "Failed to process message")

\* except VoiceProcessingException: raise / except AIServiceException: raise /
\* except Exception: ... raise 500
VoiceExcept(raised) ==
    IF raised.type \in {"none", "AIServiceException", "VoiceProcessingException"}
    THEN raised
    ELSE HTTPException(500, "Failed to process voice message")

\* except Exception: ... raise 500 (start_ai_session, end_session)
CatchAll(raised, detail) ==
    IF raised.type = "none" THEN raised ELSE HTTPException(500, detail)

\* What a collaborator did in a request: the step of the handler that failed
\* and the text of the error raised there (NoCause when none failed).
Cause(step, text) == [step |-> step, text |-> text]

NoCause == Cause("none", "")

\* The record of a request: the handler, the caller, the session the request
\* names, the status code and the detail of the response, the system prompt
\* sent upstream (empty without an upstream call) and the failure met.
Response(op, u, sid, exc, prompt, cause) ==
    [op |-> op, user |-> u, sid |-> sid, code |-> StatusOf(exc),
     detail |-> DetailOf(exc), prompt |-> prompt, cause |-> cause]

NoResponse ==
    [op |-> "none", user |-> "none", sid |-> 0, code |-> 0,
     detail |-> << >>, prompt |-> << >>, cause |-> NoCause]

\* ---------------------------------------------------------------- queries
\* db.query(AISession).filter(session_id == .., user_id == .., status == "active")
\* A query that leaves the owner out of its filter.
ActiveSessionOfAnyone(sid, u) ==
    /\ sid \in DOMAIN sessions
    /\ sessions[sid].status = "active"

ActiveSession(sid, u) ==
    /\ sid \in DOMAIN sessions
    /\ sessions[sid].user_id = u
    /\ sessions[sid].status = "active"

HasActiveSession(u) == \E i \in DOMAIN sessions : ActiveSession(i, u)

Row(role, content, language) ==
    [role |-> role, content |-> content, language |-> language]

\* ------------------------------------------------------ MeetingIntegration
\* f"simple_{user_id}_{int(loop.time())}"
MeetingId(u, t) == <<u, t>>

MeetingPlatform(platform) ==
    IF platform = "zoom" /\ zoom_configured THEN "zoom"
    ELSE IF platform = "google_meet" /\ google_meet_configured THEN "google_meet"
    ELSE "webrtc"

\* create_meeting: a new room, status "created", replaces any room of that id
create_meeting(meetings, u, platform, t) ==
    [m \in DOMAIN meetings \cup {MeetingId(u, t)} |->
        IF m = MeetingId(u, t)
        THEN [platform |-> MeetingPlatform(platform), user_id |-> u,
              status |-> "created", created_at |-> t]
        ELSE meetings[m]]

\* except Exception as e: raise MeetingException(f"...: {str(e)}")
CreateMeetingExcept(text) ==
    Exc("MeetingException", <<"Could not create meeting room: ", text>>)

join_meeting_as_bot(meetings, m) ==
    IF m \in DOMAIN meetings
    THEN [meetings EXCEPT ![m].status = "ai_joined"]
    ELSE meetings

end_meeting(meetings, m) ==
    IF m \in DOMAIN meetings
    THEN [meetings EXCEPT ![m].status = "ended"]
    ELSE meetings

\* asyncio.create_task(self._ai_listening_loop(meeting_id, ai_companion)): the
\* task is ready to run and has not yet looked its meeting up. Once it has
\* (bound), it holds the dictionary's object of that moment: status "dict"
\* says that this object is still the one filed under meeting_id, any other
\* status is that of an object the dictionary no longer holds.
NewLoop(m) ==
    [meeting_id |-> m, pc |-> "ready", bound |-> FALSE, status |-> "dict"]

\* self.active_meetings[meeting_id] = meeting_data files a new object under
\* m: the loops that hold the object filed there before keep that object, which
\* nothing else refers to any more.
Replaced(loops, meetings, m) ==
    [k \in DOMAIN loops |->
        IF loops[k].meeting_id = m /\ loops[k].bound /\ loops[k].status = "dict"
        THEN [loops[k] EXCEPT !.status = meetings[m].status]
        ELSE loops[k]]

\* meeting.get("status") as the loop reads it from the object it holds.
WatchedStatus(loop, meetings) ==
    IF loop.status = "dict" THEN meetings[loop.meeting_id].status
    ELSE loop.status

\* ------------------------------------------------------------------- Init
\* Two registered users: u1 has bought the premium plan
\* (handle_successful_payment set is_premium), u2 has not (auth.py registers
\* every user with is_premium = False). The session tables and the in-memory
\* dictionaries start empty.
PremiumUsers == {"u1"}

NoCall == [fn |-> "none"]

Init ==
    /\ now = 0
    /\ premium = [u \in Users |-> u \in PremiumUsers]
    /\ conversation_history = << >>
    /\ sessions = << >>
    /\ messages = << >>
    /\ active_meetings = << >>
    /\ sent = [u \in Users |-> 0]
    /\ chron = [u \in Users |-> << >>]
    /\ exchanges = << >>
    /\ payments = << >>
    /\ probe = NoCall
    /\ suspended = << >>
    /\ listening = << >>
    /\ last = NoResponse

\* ----------------------------------------------------------- transactions
\* What a handler has written through its ORM session: rows added and not yet
\* committed, and rows committed.
\* db.add(user_message) followed by a db.commit() of its own.
UserRowCommitted(row) == [pending |-> << >>, committed |-> <<row>>]

\* db.add(user_message): the row is pending until the handler's db.commit().
UserRowAdded(row) == [pending |-> <<row>>, committed |-> << >>]

\* db.rollback(): the pending rows are dropped.
rollback(pending) == << >>

\* database.get_db, when the request is over: the session is closed and what
\* it still holds uncommitted is dropped with it.
get_db_close(pending) == << >>

\* The rows of a request that stay in the table when the request fails.
Unwind(writes, rolled_back) ==
    writes.committed \o (IF rolled_back THEN rollback(writes.pending)
                         ELSE get_db_close(writes.pending))

\* --------------------------------------------------------------- handlers
\* The AISession row start_ai_session adds (column defaults applied).
NewSession(u, language, platform, t) ==
    [user_id |-> u, language |-> language, duration_minutes |-> 0,
     message_count |-> 0, meeting_id |-> MeetingId(u, t),
     meeting_platform |-> MeetingPlatform(platform), status |-> "active",
     created_at |-> t, ended_at |-> NULL]

\* users.preferred_language: what the user registered with (register_user
\* stores the string it is sent, the empty one too).
StoredLanguage(u) == IF u = "u1" THEN "fr" ELSE ""

\* A start that ignores the preference sent with the request.
StoredLanguageOnly(preferred, stored) ==
    IF Truthy(stored) THEN stored ELSE "en"

\* session_data.preferred_language or current_user.preferred_language or "en"
EffectiveLanguage(preferred, stored) ==
    IF Truthy(preferred) THEN preferred
    ELSE IF Truthy(stored) THEN stored
    ELSE "en"

StartFailures == {"none", "meeting", "commit_session", "commit_greeting"}

\* POST /start-session. fail names the step of the try body that raises and
\* text is the text of the error raised there.
start_ai_session(u, preferred, platform, fail, text, maxSessions, parallel) ==
    LET language == EffectiveLanguage(preferred, StoredLanguage(u))
        sid == Len(sessions) + 1
        created == create_meeting(active_meetings, u, platform, now)
        joined == join_meeting_as_bot(created, MeetingId(u, now))
        raised == IF fail = "none" THEN NoExc
                  ELSE IF fail = "meeting" THEN CreateMeetingExcept(text)
                  ELSE Exc("DBError", <<text>>)
    IN  /\ Len(sessions) < maxSessions
        /\ parallel \/ ~HasActiveSession(u)
        /\ active_meetings' =
              CASE fail = "meeting" -> active_meetings
                [] fail = "commit_session" -> created
                [] OTHER -> joined
        /\ IF fail \in {"meeting", "commit_session"}
           THEN UNCHANGED <<sessions, messages, exchanges>>
           ELSE /\ sessions' = Append(sessions,
                                      NewSession(u, language, platform, now))
                /\ exchanges' = Append(exchanges, 0)
                /\ messages' = Append(messages,
                      IF fail = "none"
                      THEN <<Row("assistant", get_greeting(language), language)>>
                      ELSE << >>)
        /\ listening' =
              CASE fail = "meeting" -> listening
                [] fail = "commit_session" ->
                     Replaced(listening, active_meetings, MeetingId(u, now))
                [] OTHER ->
                     Append(Replaced(listening, active_meetings,
                                     MeetingId(u, now)),
                            NewLoop(MeetingId(u, now)))
        /\ last' = Response("start", u, sid,
                            CatchAll(raised, "Failed to start AI session"),
                            << >>,
                            IF fail = "none" THEN NoCause ELSE Cause(fail, text))
        /\ UNCHANGED <<suspended, now, premium, conversation_history, sent, chron,
                       payments, probe>>

\* A commit that counts the exchange as one message.
CommitExchangeOnce(sid, user_text, reply, language) ==
    /\ messages' = [messages EXCEPT ![sid] =
                      @ \o <<Row("user", user_text, language),
                             Row("assistant", reply, language)>>]
    /\ sessions' = [sessions EXCEPT ![sid].message_count = @ + 1]

\* A commit that stamps the rows with the language of the session.
CommitExchangeInSessionLanguage(sid, user_text, reply, language) ==
    /\ messages' = [messages EXCEPT ![sid] =
                      @ \o <<Row("user", user_text, sessions[sid].language),
                             Row("assistant", reply, sessions[sid].language)>>]
    /\ sessions' = [sessions EXCEPT ![sid].message_count = @ + 2]

\* What an exchange that commits writes: the two rows and the counter.
CommitExchange(sid, user_text, reply, language) ==
    /\ messages' = [messages EXCEPT ![sid] =
                      @ \o <<Row("user", user_text, language),
                             Row("assistant", reply, language)>>]
    /\ sessions' = [sessions EXCEPT ![sid].message_count = @ + 2]

\* What an exchange that fails after its first db.add leaves in the tables.
AbandonExchange(sid, writes, rolled_back) ==
    /\ messages' = [messages EXCEPT ![sid] = @ \o Unwind(writes, rolled_back)]
    /\ sessions' = sessions

\* The exchanges of a session that were answered 200.
CountExchange(sid, exc) ==
    exchanges' = IF StatusOf(exc) = 200
                 THEN [exchanges EXCEPT ![sid] = @ + 1]
                 ELSE exchanges

\* The Conversation Store after generate_response was called for u, and the
\* record of what was stored since the last clear.
StoreAfter(u, gen, user_text) ==
    /\ conversation_history' = gen.store
    /\ IF gen.exc.type = "none"
       THEN /\ chron' = [chron EXCEPT ![u] =
                           @ \o <<Entry("user", user_text),
                                  Entry("assistant", gen.reply)>>]
            /\ sent' = [sent EXCEPT ![u] = @ + 1]
       ELSE UNCHANGED <<chron, sent>>

\* The number of texts answered so far, over all users.
TotalSent == sent["u1"] + sent["u2"]

\* What the upstream call of generate_response does when the request's
\* failing step is fail.
UpstreamOf(fail) == IF fail \in Upstream THEN fail ELSE "ok"

\* The step of the try body that raises, if any.
TextFailures == {"none", "rate_limit", "api_error", "error", "commit"}

\* POST /send-message
send_text_message(u, sid, fail, text, maxExchanges) ==
    LET found == ActiveSession(sid, u)
        user_text == UserText(sent[u] + 1)
        detected_language == detect_language(user_text)
        writes == UserRowAdded(Row("user", user_text, detected_language))
        gen == generate_response(conversation_history, user_text,
                                 detected_language, u, UserContextOf(u),
                                 UpstreamOf(fail), text, ReplyText(sent[u] + 1))
        raised == IF ~found
                  THEN HTTPException(404, "Active session not found")
                  ELSE IF gen.exc.type # "none" THEN gen.exc
                  ELSE IF fail = "commit" THEN Exc("DBError", <<text>>)
                  ELSE NoExc
        answer == SendTextExcept(raised)
    IN  /\ (found /\ gen.exc.type = "none") => TotalSent < maxExchanges
        /\ IF found
           THEN StoreAfter(u, gen, user_text)
           ELSE UNCHANGED <<conversation_history, chron, sent>>
        /\ IF raised.type = "none"
           THEN CommitExchange(sid, user_text, gen.reply, detected_language)
           ELSE IF found
           THEN AbandonExchange(sid, writes, answer # raised)
           ELSE UNCHANGED <<sessions, messages>>
        /\ CountExchange(sid, answer)
        /\ last' = Response("text", u, sid, answer,
                            IF found THEN gen.prompt ELSE << >>,
                            IF found /\ fail # "none"
                            THEN Cause(fail, text) ELSE NoCause)
        /\ UNCHANGED <<listening, suspended, now, premium, active_meetings, payments, probe>>

\* The step of the try body that raises, if any: validate_audio_format
\* rejecting the bytes, speech_to_text, the upstream call, text_to_speech,
\* db.commit.
VoiceFailures == {"none", "audio_format", "speech_to_text", "rate_limit",
                  "api_error", "error", "text_to_speech", "commit"}

\* A gate without the premium check.
VoiceGateOpen(found, is_premium, fail) ==
    IF ~found THEN HTTPException(404, "Active session not found")
    ELSE IF fail = "audio_format"
    THEN HTTPException(400,
            "Invalid audio format. Supported formats: WAV, FLAC, AIFF")
    ELSE IF fail = "speech_to_text"
    THEN Exc("VoiceProcessingException",
             <<"Speech recognition service is temporarily unavailable.">>)
    ELSE NoExc

\* What process_voice_message raises before it calls generate_response: the
\* session query, the premium check, the audio validation, speech_to_text.
VoiceGate(found, is_premium, fail) ==
    IF ~found THEN HTTPException(404, "Active session not found")
    ELSE IF ~is_premium
    THEN HTTPException(403,
            "Premium subscription required for voice messages")
    ELSE IF fail = "audio_format"
    THEN HTTPException(400,
            "Invalid audio format. Supported formats: WAV, FLAC, AIFF")
    ELSE IF fail = "speech_to_text"
    THEN Exc("VoiceProcessingException",
             <<"Speech recognition service is temporarily unavailable.">>)
    ELSE NoExc

\* POST /voice-message
process_voice_message(u, sid, fail, text, maxExchanges) ==
    LET found == ActiveSession(sid, u)
        user_text == UserText(sent[u] + 1)
        detected_language == detect_language(user_text)
        writes == UserRowAdded(Row("user", user_text, detected_language))
        gen == generate_response(conversation_history, user_text,
                                 detected_language, u, UserContextOf(u),
                                 UpstreamOf(fail), text, ReplyText(sent[u] + 1))
        before == VoiceGate(found, premium[u], fail)
        raised == IF before.type # "none" THEN before
                  ELSE IF gen.exc.type # "none" THEN gen.exc
                  ELSE IF fail = "text_to_speech"
                  THEN Exc("VoiceProcessingException",
                           <<"Could not generate speech audio.">>)
                  ELSE IF fail = "commit" THEN Exc("DBError", <<text>>)
                  ELSE NoExc
        answer == VoiceExcept(raised)
    IN  /\ (before.type = "none" /\ gen.exc.type = "none")
              => TotalSent < maxExchanges
        /\ IF before.type = "none"
           THEN StoreAfter(u, gen, user_text)
           ELSE UNCHANGED <<conversation_history, chron, sent>>
        /\ IF raised.type = "none"
           THEN CommitExchange(sid, user_text, gen.reply, detected_language)
           ELSE IF before.type = "none"
           THEN AbandonExchange(sid, writes, answer # raised)
           ELSE UNCHANGED <<sessions, messages>>
        /\ CountExchange(sid, answer)
        /\ last' = Response("voice", u, sid, answer,
                            IF before.type = "none" THEN gen.prompt ELSE << >>,
                            IF found /\ premium[u] /\ fail # "none"
                            THEN Cause(fail, text) ELSE NoCause)
        /\ UNCHANGED <<listening, suspended, now, premium, active_meetings, payments, probe>>

\* process_voice_message has one point where it gives way to other requests:
\* await audio_file.read(), which runs in the thread pool when the upload was
\* spooled to disk. The session query and the premium check come before it,
\* everything else after it. The other awaits of the handlers are coroutines
\* that never suspend (the clients they call are synchronous).
\* A voice request that waits there: the caller and the session row as the
\* handler's ORM session loaded it.
VoiceRequest(u, sid) ==
    [user |-> u, sid |-> sid, message_count |-> sessions[sid].message_count]

\* The sequence without its k-th element.
Without(s, k) == SubSeq(s, 1, k - 1) \o SubSeq(s, k + 1, Len(s))

\* process_voice_message up to await audio_file.read(), for a request that
\* passes the session query and the premium check.
voice_begin(u, sid, maxSuspended) ==
    /\ ActiveSession(sid, u)
    /\ premium[u]
    /\ Len(suspended) < maxSuspended
    /\ suspended' = Append(suspended, VoiceRequest(u, sid))
    /\ UNCHANGED <<listening, now, premium, conversation_history, sessions,
                   messages, active_meetings, sent, chron, exchanges,
                   payments, probe, last>>

\* A resumed request that finds no history of the caller.
StoreForgotten(store, u) == [v \in DOMAIN store \ {u} |-> store[v]]

\* The store generate_response reads when the request resumes: the one of
\* that moment, with what other requests wrote while this one waited.
StoreAtResume(store, u) == store

\* ai_session.message_count += 2 on the row the handler loaded, and the two
\* rows: the UPDATE writes the counter the handler computed.
CommitLoaded(request, user_text, reply, language) ==
    /\ messages' = [messages EXCEPT ![request.sid] =
                      @ \o <<Row("user", user_text, language),
                             Row("assistant", reply, language)>>]
    /\ sessions' = [sessions EXCEPT ![request.sid].message_count =
                                       request.message_count + 2]

\* process_voice_message from await audio_file.read() on, for the k-th
\* waiting request.
voice_resume(k, fail, text, maxExchanges) ==
    LET request == suspended[k]
        u == request.user
        sid == request.sid
        user_text == UserText(sent[u] + 1)
        detected_language == detect_language(user_text)
        writes == UserRowAdded(Row("user", user_text, detected_language))
        gen == generate_response(
                   StoreAtResume(conversation_history, u),
                   user_text, detected_language, u, UserContextOf(u),
                   UpstreamOf(fail), text, ReplyText(sent[u] + 1))
        before == VoiceGate(TRUE, TRUE, fail)
        raised == IF before.type # "none" THEN before
                  ELSE IF gen.exc.type # "none" THEN gen.exc
                  ELSE IF fail = "text_to_speech"
                  THEN Exc("VoiceProcessingException",
                           <<"Could not generate speech audio.">>)
                  ELSE IF fail = "commit" THEN Exc("DBError", <<text>>)
                  ELSE NoExc
        answer == VoiceExcept(raised)
    IN  /\ (before.type = "none" /\ gen.exc.type = "none")
              => TotalSent < maxExchanges
        /\ suspended' = Without(suspended, k)
        /\ IF before.type = "none"
           THEN StoreAfter(u, gen, user_text)
           ELSE UNCHANGED <<conversation_history, chron, sent>>
        /\ IF raised.type = "none"
           THEN CommitLoaded(request, user_text, gen.reply, detected_language)
           ELSE IF before.type = "none"
           THEN AbandonExchange(sid, writes, answer # raised)
           ELSE UNCHANGED <<sessions, messages>>
        /\ CountExchange(sid, answer)
        /\ last' = Response("voice", u, sid, answer,
                            IF before.type = "none" THEN gen.prompt ELSE << >>,
                            IF fail # "none"
                            THEN Cause(fail, text) ELSE NoCause)
        /\ UNCHANGED <<listening, now, premium, active_meetings, payments,
                       probe>>

\* A duration rounded to the nearest minute.
DurationRounded(created_at, ended_at) ==
    (ended_at - created_at + 30) \div 60

\* int((ended_at - created_at).total_seconds() / 60): the division truncated
\* toward zero.
DurationMinutes(created_at, ended_at) ==
    IF ended_at >= created_at
    THEN (ended_at - created_at) \div 60
    ELSE -((created_at - ended_at) \div 60)

\* An end that writes the third status the column comment lists.
TerminatedSession(s, t) ==
    [s EXCEPT !.status = "terminated", !.ended_at = t,
              !.duration_minutes = DurationMinutes(s.created_at, t)]

\* The row end_session commits.
EndedSession(s, t) ==
    [s EXCEPT !.status = "completed", !.ended_at = t,
              !.duration_minutes = DurationMinutes(s.created_at, t)]

\* POST /session/{session_id}/end
end_session(u, sid, commitOk, text) ==
    LET found == ActiveSession(sid, u)
        cleared == clear_conversation_history(conversation_history, u)
        raised == IF ~found
                  THEN HTTPException(404, "Active session not found")
                  ELSE IF ~commitOk THEN Exc("DBError", <<text>>)
                  ELSE cleared.exc
    IN  /\ active_meetings' =
              IF found
              THEN end_meeting(active_meetings, sessions[sid].meeting_id)
              ELSE active_meetings
        /\ sessions' =
              IF found /\ commitOk
              THEN [sessions EXCEPT ![sid] = EndedSession(@, now)]
              ELSE sessions
        /\ conversation_history' =
              IF found /\ commitOk
              THEN cleared.store
              ELSE conversation_history
        /\ chron' = IF found /\ commitOk THEN [chron EXCEPT ![u] = << >>]
                    ELSE chron
        /\ last' = Response("end", u, sid,
                            CatchAll(raised, "Failed to end session"),
                            << >>,
                            IF found /\ ~commitOk
                            THEN Cause("commit", text) ELSE NoCause)
        /\ UNCHANGED <<listening, suspended, now, premium, messages, sent, exchanges, payments,
                       probe>>

\* PAYMENT_PLANS
payment_plans == {"free", "premium", "enterprise"}

\* settings.STRIPE_API_KEY is set: the deployment takes payments.
stripe_configured == TRUE

\* The step of the try body that raises, if any: the Stripe call with an
\* error of Stripe's or with another error, db.commit.
CheckoutFailures == {"none", "stripe", "stripe_other", "commit"}

\* The except clauses of create_checkout_session.
CheckoutExcept(raised) ==
    IF raised.type = "none" THEN raised
    ELSE IF raised.type = "StripeError"
    THEN Exc("PaymentException",
             <<"Payment processing error: ", raised.message[1]>>)
    ELSE HTTPException(500, "Failed to create checkout session")

\* POST /payments/checkout
create_checkout_session(u, plan_type, fail, text, maxPayments) ==
    LET raised == IF ~stripe_configured
                  THEN Exc("PaymentException",
                           <<"Payment processing is not configured">>)
                  ELSE IF plan_type \notin payment_plans
                  THEN HTTPException(400, "Invalid plan type")
                  ELSE IF plan_type = "free"
                  THEN HTTPException(400, "Free plan doesn't require payment")
                  ELSE IF fail = "stripe" THEN Exc("StripeError", <<text>>)
                  ELSE IF fail = "stripe_other" THEN Exc("RuntimeError", <<text>>)
                  ELSE IF fail = "commit" THEN Exc("DBError", <<text>>)
                  ELSE NoExc
        reached == stripe_configured /\ plan_type \in payment_plans \ {"free"}
    IN  /\ Len(payments) < maxPayments
        /\ payments' =
              IF raised.type = "none"
              THEN Append(payments, [user_id |-> u, plan_type |-> plan_type,
                                     status |-> "pending"])
              ELSE payments
        /\ last' = Response("checkout", u, 0, CheckoutExcept(raised), << >>,
                            IF reached /\ fail # "none"
                            THEN Cause(fail, text) ELSE NoCause)
        /\ UNCHANGED <<listening, suspended, now, premium, conversation_history, sessions, messages,
                       active_meetings, sent, chron, exchanges, probe>>

\* ------------------------------------------------------------ crisis filter
\* A text is the list of its characters; a character outside ASCII is named
\* by its code point: U+00F1 and U+00D1 are the small and the capital n with
\* tilde, U+0131 the dotless small i, U+017F the long s, U+0130 the capital I
\* with a dot and U+0307 the combining dot.
Ascii_lowercase ==
    <<"a", "b", "c", "d", "e", "f", "g", "h", "i", "j", "k", "l", "m",
      "n", "o", "p", "q", "r", "s", "t", "u", "v", "w", "x", "y", "z">>
Ascii_uppercase ==
    <<"A", "B", "C", "D", "E", "F", "G", "H", "I", "J", "K", "L", "M",
      "N", "O", "P", "Q", "R", "S", "T", "U", "V", "W", "X", "Y", "Z">>

\* The place of a character in an alphabet, 0 when it is not in it.
IndexIn(alphabet, c) ==
    IF \E k \in DOMAIN alphabet : alphabet[k] = c
    THEN CHOOSE k \in DOMAIN alphabet : alphabet[k] = c
    ELSE 0

\* str.lower() of one character: the lower-case mapping of Unicode.
CharLower(c) ==
    CASE IndexIn(Ascii_uppercase, c) > 0 ->
            <<Ascii_lowercase[IndexIn(Ascii_uppercase, c)]>>
      [] c = "U+00D1" -> <<"U+00F1">>
      [] c = "U+0130" -> <<"i", "U+0307">>
      [] OTHER -> <<c>>

\* str.upper() of one character: the upper-case mapping of Unicode.
CharUpper(c) ==
    CASE IndexIn(Ascii_lowercase, c) > 0 ->
            <<Ascii_uppercase[IndexIn(Ascii_lowercase, c)]>>
      [] c = "U+00F1" -> <<"U+00D1">>
      [] c = "U+0131" -> <<"I">>
      [] c = "U+017F" -> <<"S">>
      [] OTHER -> <<c>>

\* str.swapcase() of one character: an upper-case one is lowered, a
\* lower-case one raised.
CharSwapcase(c) == IF CharLower(c) # <<c>> THEN CharLower(c) ELSE CharUpper(c)

RECURSIVE Flatten(_)
Flatten(parts) ==
    IF parts = << >> THEN << >> ELSE Head(parts) \o Flatten(Tail(parts))

\* message.lower()
StrLower(message) == Flatten([k \in DOMAIN message |-> CharLower(message[k])])

\* keyword in text
Contains(text, keyword) ==
    \E k \in 0..(Len(text) - Len(keyword)) :
        SubSeq(text, k + 1, k + Len(keyword)) = keyword

\* crisis_keywords of is_crisis_message; a keyword listed twice is here once.
crisis_keywords ==
    {
     <<"s", "u", "i", "c", "i", "d", "e">>,
     <<"k", "i", "l", "l", " ", "m", "y", "s", "e", "l", "f">>,
     <<"e", "n", "d", " ", "m", "y", " ", "l", "i", "f", "e">>,
     <<"w", "a", "n", "t", " ", "t", "o", " ", "d", "i", "e">>,
     <<"h", "u", "r", "t", " ", "m", "y", "s", "e", "l", "f">>,
     <<"s", "e", "l", "f", " ", "h", "a", "r", "m">>,
     <<"c", "u", "t", " ", "m", "y", "s", "e", "l", "f">>,
     <<"o", "v", "e", "r", "d", "o", "s", "e">>,
     <<"j", "u", "m", "p", " ", "o", "f", "f">>,
     <<"h", "a", "n", "g", " ", "m", "y", "s", "e", "l", "f">>,
     <<"s", "u", "i", "c", "i", "d", "i", "o">>,
     <<"m", "a", "t", "a", "r", "m", "e">>,
     <<"m", "o", "r", "i", "r">>,
     <<"h", "a", "c", "e", "r", "m", "e", " ", "d", "a", "U+00F1", "o">>,
     <<"s", "e", "l", "b", "s", "t", "m", "o", "r", "d">>,
     <<"u", "m", "b", "r", "i", "n", "g", "e", "n">>,
     <<"s", "t", "e", "r", "b", "e", "n">>,
     <<"v", "e", "r", "l", "e", "t", "z", "e", "n">>,
     <<"m", "e", " ", "t", "u", "e", "r">>,
     <<"m", "o", "u", "r", "i", "r">>,
     <<"m", "e", " ", "f", "a", "i", "r", "e", " ", "m", "a", "l">>,
     <<"u", "c", "c", "i", "d", "e", "r", "m", "i">>,
     <<"m", "o", "r", "i", "r", "e">>,
     <<"f", "a", "r", "m", "i", " ", "m", "a", "l", "e">>}

\* is_crisis_message
is_crisis_message(message) ==
    \E keyword \in crisis_keywords : Contains(StrLower(message), keyword)

\* The message with the case of its k-th character changed.
SwapcaseAt(message, k) ==
    SubSeq(message, 1, k - 1) \o CharSwapcase(message[k])
        \o SubSeq(message, k + 1, Len(message))

\* The messages a client types before any change of case.
CrisisTexts ==
    {
     <<"i", " ", "w", "a", "n", "t", " ", "t", "o", " ", "d", "i", "e">>,
     <<"s", "u", "i", "c", "i", "d", "e">>,
     <<"s", "u", "i", "c", "U+0131", "d", "e">>,
     <<"U+017F", "t", "e", "r", "b", "e", "n">>,
     <<"h", "a", "c", "e", "r", "m", "e", " ", "d", "a", "U+00F1", "o">>,
     <<"i", " ", "a", "m", " ", "f", "i", "n", "e">>}

\* ----------------------------------------------------------- specifications
\* A scenario bounds the model and names what the collaborators may do in it:
\* how many session rows and answered texts, whether a user may start a
\* session beside an active one, the language preferences sent, and the steps
\* of each handler that may fail.
\* The text of the error is an input where a step fails, and the failing step
\* is one where the handler gets as far as its collaborators.
TextsFor(sc, failing) == IF failing THEN sc.errorTexts ELSE {""}

StartStep(sc) ==
    \E u \in Users, preferred \in sc.languages, platform \in Platforms,
       fail \in sc.startFailures :
        \E text \in TextsFor(sc, fail # "none") :
            start_ai_session(u, preferred, platform, fail, text,
                             sc.maxSessions, sc.parallel)

TextStep(sc) ==
    \E u \in Users, sid \in 1..sc.maxSessions :
        \E fail \in IF ActiveSession(sid, u)
                    THEN sc.textFailures ELSE {"none"} :
            \E text \in TextsFor(sc, fail # "none") :
                send_text_message(u, sid, fail, text, sc.maxExchanges)

VoiceStep(sc) ==
    \E u \in Users, sid \in 1..sc.maxSessions :
        \E fail \in IF ActiveSession(sid, u) /\ premium[u]
                    THEN sc.voiceFailures ELSE {"none"} :
            \E text \in TextsFor(sc, fail # "none") :
                process_voice_message(u, sid, fail, text, sc.maxExchanges)

EndStep(sc) ==
    \E u \in Users, sid \in 1..sc.maxSessions :
        \E commitOk \in IF ActiveSession(sid, u)
                        THEN sc.endCommits ELSE {TRUE} :
            \E text \in TextsFor(sc, ~commitOk) :
                end_session(u, sid, commitOk, text)

NextIn(sc) == StartStep(sc) \/ TextStep(sc) \/ VoiceStep(sc) \/ EndStep(sc)

\* The session lifecycle with every failure of the exchanges and of the end;
\* at the start the meeting room may fail.
Lifecycle ==
    [maxSessions |-> MaxSessions, maxExchanges |-> MaxExchanges,
     parallel |-> TRUE, languages |-> {NoLanguage},
     startFailures |-> {"none", "meeting"},
     textFailures |-> TextFailures, voiceFailures |-> VoiceFailures,
     endCommits |-> BOOLEAN,
     errorTexts |-> {"timeout"}]

Next == NextIn(Lifecycle)

Spec == Init /\ [][Next]_vars

\* Several sessions side by side, in the default language or in a preferred
\* one; the database does not fail.
Pair ==
    [maxSessions |-> PairSessions, maxExchanges |-> PairExchanges,
     parallel |-> TRUE, languages |-> PreferredLanguages,
     startFailures |-> {"none"}, textFailures |-> {"none", "error"},
     voiceFailures |-> {"none", "error", "text_to_speech"},
     endCommits |-> {TRUE}, errorTexts |-> {"timeout"}]

NextPair == NextIn(Pair)

SpecPair == Init /\ [][NextPair]_vars

\* Long conversations, so that the window overflows: one session of a user at
\* a time; the upstream service may fail, the database does not.
Window ==
    [maxSessions |-> WinSessions, maxExchanges |-> WinExchanges,
     parallel |-> FALSE, languages |-> {NoLanguage},
     startFailures |-> {"none"}, textFailures |-> {"none", "error"},
     voiceFailures |-> {"none", "error"},
     endCommits |-> {TRUE}, errorTexts |-> {"timeout"}]

NextWindow == NextIn(Window)

SpecWindow == Init /\ [][NextWindow]_vars

\* Every collaborator may fail, with one of two error texts; users also ask
\* for a checkout.
ErrorTexts == {"timeout", "quota"}

Errors ==
    [maxSessions |-> ErrSessions, maxExchanges |-> ErrExchanges,
     parallel |-> TRUE, languages |-> {NoLanguage},
     startFailures |-> StartFailures, textFailures |-> TextFailures,
     voiceFailures |-> VoiceFailures, endCommits |-> BOOLEAN,
     errorTexts |-> ErrorTexts]

CheckoutStep ==
    \E u \in Users, plan_type \in {"free", "premium", "gold"},
       fail \in CheckoutFailures, text \in ErrorTexts :
        create_checkout_session(u, plan_type, fail, text, MaxPayments)

NextErrors == NextIn(Errors) \/ CheckoutStep

SpecErrors == Init /\ [][NextErrors]_vars

\* Both users converse, one session of a user at a time, so that each holds
\* a history while the other acts; the upstream call may fail.
Frame ==
    [maxSessions |-> FrameSessions, maxExchanges |-> FrameExchanges,
     parallel |-> FALSE, languages |-> {NoLanguage},
     startFailures |-> {"none"}, textFailures |-> {"none", "error"},
     voiceFailures |-> {"none", "error"},
     endCommits |-> {TRUE}, errorTexts |-> {"timeout"}]

NextFrame == NextIn(Frame)

SpecFrame == Init /\ [][NextFrame]_vars

\* Sessions start in the default language or in a preferred one, beside
\* other sessions, and every step of the start may fail.
Greeting ==
    [maxSessions |-> GreetSessions, maxExchanges |-> GreetExchanges,
     parallel |-> TRUE, languages |-> PreferredLanguages,
     startFailures |-> StartFailures, textFailures |-> {"none"},
     voiceFailures |-> {"none"},
     endCommits |-> {TRUE}, errorTexts |-> {"timeout"}]

NextGreeting == NextIn(Greeting)

SpecGreeting == Init /\ [][NextGreeting]_vars

\* The pure functions of the companion called by themselves: the system
\* prompt for a language code, in the prompt table or not, and a context that
\* is absent or holds any of its fields, each unset, empty or filled; the
\* crisis filter for a message as typed and with the case of some of its
\* characters changed, one at a time. A behaviour is one call and, for the
\* filter, the calls with the message recased that follow it.
ProbeLanguages == {"en", "de", "zh", "ar", "he", "xx", "EN", ""}

ContextValues == {NoValue, "", "chess"}

ProbeContexts ==
    UNION {[keys -> ContextValues] : keys \in SUBSET ContextKeys}

PromptProbe ==
    /\ probe = NoCall
    /\ \E language \in ProbeLanguages, user_context \in ProbeContexts :
          probe' = [fn |-> "get_system_prompt", language |-> language,
                    user_context |-> user_context,
                    result |-> get_system_prompt(language, user_context)]
    /\ UNCHANGED <<listening, suspended, now, premium, conversation_history, sessions, messages,
                   active_meetings, sent, chron, exchanges, payments, last>>

CrisisCall(message, flips) ==
    [fn |-> "is_crisis_message", message |-> message, flips |-> flips,
     result |-> is_crisis_message(message)]

CrisisProbe ==
    /\ probe = NoCall
    /\ \E message \in CrisisTexts : probe' = CrisisCall(message, 0)
    /\ UNCHANGED <<listening, suspended, now, premium, conversation_history, sessions, messages,
                   active_meetings, sent, chron, exchanges, payments, last>>

RecasedProbe ==
    /\ probe.fn = "is_crisis_message"
    /\ probe.flips < MaxFlips
    /\ \E k \in DOMAIN probe.message :
          probe' = CrisisCall(SwapcaseAt(probe.message, k), probe.flips + 1)
    /\ UNCHANGED <<listening, suspended, now, premium, conversation_history, sessions, messages,
                   active_meetings, sent, chron, exchanges, payments, last>>

\* The greeting is asked for a supported code or for another one.
GreetingProbe ==
    /\ probe = NoCall
    /\ \E language_code \in supported_languages \cup {"xx", ""} :
          probe' = [fn |-> "get_greeting", language_code |-> language_code,
                    result |-> get_greeting(language_code)]
    /\ UNCHANGED <<listening, suspended, now, premium, conversation_history, sessions, messages,
                   active_meetings, sent, chron, exchanges, payments, last>>

NextTable == PromptProbe \/ CrisisProbe \/ RecasedProbe \/ GreetingProbe

SpecTable == Init /\ [][NextTable]_vars

\* The upstream call fails in each of its classes, with one of two error
\* texts, in text and voice exchanges.
UpstreamErrors ==
    [maxSessions |-> UpSessions, maxExchanges |-> UpExchanges,
     parallel |-> FALSE, languages |-> {NoLanguage},
     startFailures |-> {"none"},
     textFailures |-> {"none"} \cup UpstreamFailures,
     voiceFailures |-> {"none"} \cup UpstreamFailures,
     endCommits |-> {TRUE}, errorTexts |-> ErrorTexts]

NextUpstream == NextIn(UpstreamErrors)

SpecUpstream == Init /\ [][NextUpstream]_vars

\* Voice requests of the premium user wait at the upload while other
\* requests run, and resume in any order; the user also sends texts and ends
\* the session.
Async ==
    [maxSessions |-> AsyncSessions, maxExchanges |-> AsyncExchanges,
     parallel |-> FALSE, languages |-> {NoLanguage},
     startFailures |-> {"none"}, textFailures |-> {"none"},
     voiceFailures |-> {"none"},
     endCommits |-> {TRUE}, errorTexts |-> {"timeout"}]

VoiceBeginStep ==
    \E u \in Users, sid \in 1..AsyncSessions :
        voice_begin(u, sid, MaxSuspended)

VoiceResumeStep ==
    \E k \in DOMAIN suspended, fail \in {"none", "error", "commit"} :
        \E text \in TextsFor(Async, fail # "none") :
            voice_resume(k, fail, text, AsyncExchanges)

NextAsync ==
    \/ StartStep(Async)
    \/ TextStep(Async)
    \/ VoiceBeginStep
    \/ VoiceResumeStep
    \/ EndStep(Async)

SpecAsync == Init /\ [][NextAsync]_vars

\* ---------------------------------------------------------- the listing
\* The session query of get_session_messages: by id and owner, whatever
\* the status of the session.
OwnSession(sid, u) ==
    /\ sid \in DOMAIN sessions
    /\ sessions[sid].user_id = u

\* What get_session_messages answers: the rows of the session in the order
\* they were added, or, for a session the query does not find, the 404 that
\* its except clause turns into a 500.
session_messages(u, sid) ==
    LET raised == IF OwnSession(sid, u) THEN NoExc
                  ELSE HTTPException(404, "Session not found")
    IN  [exc |-> CatchAll(raised, "Failed to retrieve messages"),
         rows |-> IF OwnSession(sid, u) THEN messages[sid] ELSE << >>]

get_session_messages(u, sid) ==
    /\ last' = Response("list", u, sid, session_messages(u, sid).exc,
                        << >>, NoCause)
    /\ UNCHANGED <<listening, suspended, now, premium, conversation_history,
                   sessions, messages, active_meetings, sent, chron,
                   exchanges, payments, probe>>

\* Two users with a session each, and every request of either user on
\* either session.
Owner ==
    [maxSessions |-> OwnerSessions, maxExchanges |-> OwnerExchanges,
     parallel |-> FALSE, languages |-> {NoLanguage},
     startFailures |-> {"none"}, textFailures |-> {"none"},
     voiceFailures |-> {"none"},
     endCommits |-> {TRUE}, errorTexts |-> {"timeout"}]

ListStep(sc) ==
    \E u \in Users, sid \in 1..sc.maxSessions : get_session_messages(u, sid)

NextOwner == NextIn(Owner) \/ ListStep(Owner)

SpecOwner == Init /\ [][NextOwner]_vars

\* Time passes between requests: one session, started and ended at any of
\* the moments the clock reaches.
ClockSteps == {15, 45}

Tick(seconds, maxTime) ==
    /\ now + seconds <= maxTime
    /\ now' = now + seconds
    /\ UNCHANGED <<listening, suspended, premium, conversation_history, sessions, messages,
                   active_meetings, sent, chron, exchanges, payments, probe,
                   last>>

Clock ==
    [maxSessions |-> ClockSessions, parallel |-> TRUE,
     languages |-> {NoLanguage}, startFailures |-> {"none"},
     endCommits |-> {TRUE}, errorTexts |-> {"timeout"}]

TickStep == \E seconds \in ClockSteps : Tick(seconds, MaxTime)

NextClock == StartStep(Clock) \/ EndStep(Clock) \/ TickStep

SpecClock == Init /\ [][NextClock]_vars

\* ------------------------------------------------------ listening loops
\* A step of the task of _ai_listening_loop: on its first run it looks its
\* meeting up and returns when there is none; then, as on every run after
\* a sleep, it tests the status of the object it holds and either sleeps for
\* another second or returns.
loop_run(k) ==
    LET loop == listening[k]
        found == loop.bound \/ loop.meeting_id \in DOMAIN active_meetings
    IN  /\ loop.pc = "ready"
        /\ listening' = [listening EXCEPT ![k] =
              IF ~found
              THEN [loop EXCEPT !.pc = "done"]
              ELSE [loop EXCEPT
                      !.bound = TRUE,
                      !.pc = IF WatchedStatus(loop, active_meetings) = "ai_joined"
                             THEN "sleeping" ELSE "done"]]
        /\ UNCHANGED <<suspended, now, premium, conversation_history, sessions,
                       messages, active_meetings, sent, chron, exchanges,
                       payments, probe, last>>

\* await asyncio.sleep(1) is over: the event loop makes the task ready again.
loop_wake(k) ==
    /\ listening[k].pc = "sleeping"
    /\ listening' = [listening EXCEPT ![k].pc = "ready"]
    /\ UNCHANGED <<suspended, now, premium, conversation_history, sessions,
                   messages, active_meetings, sent, chron, exchanges, payments,
                   probe, last>>

Loop ==
    [maxSessions |-> LoopSessions, parallel |-> TRUE,
     languages |-> {NoLanguage}, startFailures |-> {"none"},
     endCommits |-> {TRUE}, errorTexts |-> {"timeout"}]

LoopRunStep == \E k \in DOMAIN listening : loop_run(k)

LoopWakeStep == \E k \in DOMAIN listening : loop_wake(k)

\* The clock of the event loop, whose whole seconds number the meetings.
LoopTickStep == \E seconds \in ClockSteps : Tick(seconds, LoopTime)

NextLoop ==
    \/ StartStep(Loop) \/ EndStep(Loop) \/ LoopTickStep
    \/ LoopRunStep \/ LoopWakeStep

\* The event loop runs every task that is ready and fires every timer that
\* is due: no listening loop waits forever for its next step.
LoopFairness ==
    \A k \in 1..LoopSessions :
        WF_vars(k \in DOMAIN listening /\ (loop_run(k) \/ loop_wake(k)))

SpecLoop == Init /\ [][NextLoop]_vars /\ LoopFairness

\* ------------------------------------------------------------------ claims
\* The number of generate_response calls that returned a reply for u since
\* the store last held no history of u.
Answered(u) == Len(chron[u]) \div 2

C2_FailedCallKeepsHistory ==
    [][(last'.op \in {"text", "voice"} /\ last'.code = 503)
          => conversation_history' = conversation_history]_vars

\* A call failed for a user who has a history.
C2_Witness ==
    /\ last.op \in {"text", "voice"}
    /\ last.code = 503
    /\ HistoryFor(conversation_history, last.user) # << >>

\* C3: immediately after every successful StartSession the caller's history
\* is empty.
C3_StartLeavesHistoryEmpty ==
    (last.op = "start" /\ last.code = 200)
        => HistoryFor(conversation_history, last.user) = << >>

Exchange == {"text", "voice"}

\* C4: SendMessage, SendVoiceMessage and EndSession that name a session which
\* is absent or not active are answered 404 (SessionNotFound).
C4_NotActiveIsNotFound ==
    [][(/\ last'.op \in Exchange \cup {"end"}
        /\ ~ActiveSession(last'.sid, last'.user))
          => last'.code = 404]_vars

\* C5: a session row is created active, its status changes only in a
\* successful EndSession, from active to completed, and no other status is
\* ever written.
C5_StatusLifecycle ==
    [][/\ \A i \in DOMAIN sessions' :
             sessions'[i].status \in {"active", "completed"}
       /\ \A i \in DOMAIN sessions' \ DOMAIN sessions :
             sessions'[i].status = "active"
       /\ \A i \in DOMAIN sessions :
             /\ i \in DOMAIN sessions'
             /\ sessions'[i].status # sessions[i].status =>
                   /\ sessions[i].status = "active"
                   /\ sessions'[i].status = "completed"
                   /\ last'.op = "end"
                   /\ last'.user = sessions[i].user_id
                   /\ last'.sid = i
                   /\ last'.code = 200
      ]_vars

\* A session has been ended while another row is still to be judged: the
\* completed row stays completed under later requests on it.
C5_Witness ==
    \E i \in DOMAIN sessions :
        /\ sessions[i].status = "completed"
        /\ last.op \in Exchange \cup {"end"}
        /\ last.sid = i
        /\ last.code # 200

\* C6: after a successful EndSession the session is completed, its end time
\* is stamped, its meeting room is ended and the caller's history is empty.
C6_EndSessionEffect ==
    (last.op = "end" /\ last.code = 200) =>
        LET s == sessions[last.sid]
        IN  /\ s.status = "completed"
            /\ s.ended_at # NULL
            /\ s.meeting_id \in DOMAIN active_meetings
            /\ active_meetings[s.meeting_id].status = "ended"
            /\ HistoryFor(conversation_history, last.user) = << >>

\* A session with answered exchanges has just been ended.
C6_Witness ==
    /\ last.op = "end"
    /\ last.code = 200
    /\ sessions[last.sid].message_count > 0

\* C7: SendVoiceMessage by a user without the premium entitlement is answered
\* 403 (PremiumRequired), whatever the session and the audio.
C7_NonPremiumVoiceIs403 ==
    (last.op = "voice" /\ ~premium[last.user]) => last.code = 403

\* The message counters of the session rows.
Counters(rows) == [i \in DOMAIN rows |-> rows[i].message_count]

\* C8: SendVoiceMessage by a user without the premium entitlement changes
\* neither the Conversation Store nor the persisted messages nor any counter.
C8_NonPremiumVoiceChangesNothing ==
    [][(last'.op = "voice" /\ ~premium[last'.user]) =>
          /\ conversation_history' = conversation_history
          /\ messages' = messages
          /\ Counters(sessions') = Counters(sessions)]_vars

\* A user without the entitlement sent a voice message on an active session
\* of theirs.
C8_Witness ==
    /\ last.op = "voice"
    /\ ~premium[last.user]
    /\ ActiveSession(last.sid, last.user)

C11_ClearIdempotent ==
    \A u \in Users :
        LET first == clear_conversation_history(conversation_history, u)
            second == clear_conversation_history(first.store, u)
        IN  /\ first.exc = NoExc
            /\ HistoryFor(first.store, u) = << >>
            /\ second.exc = NoExc
            /\ second.store = first.store
            /\ (u \notin DOMAIN conversation_history
                  => first.store = conversation_history)

\* EndSession has cleared the history of a user twice in a row: the session
\* just ended took no message, and the user's other session was ended after
\* its exchange.
C11_Witness ==
    /\ last.op = "end"
    /\ last.code = 200
    /\ sessions[last.sid].message_count = 0
    /\ \E j \in DOMAIN sessions \ {last.sid} :
          /\ sessions[j].user_id = last.user
          /\ sessions[j].status = "completed"
          /\ sessions[j].message_count > 0

\* The seconds between the start and the end of a completed session.
Elapsed(s) == s.ended_at - s.created_at

\* C12: EndSession records the difference between end and start in minutes
\* rounded to the nearest whole minute: the recorded minutes are at most half
\* a minute away from the difference.
C12_DurationRounded ==
    \A i \in DOMAIN sessions :
        sessions[i].status = "completed" =>
            /\ 2 * (60 * sessions[i].duration_minutes - Elapsed(sessions[i])) <= 60
            /\ 2 * (Elapsed(sessions[i]) - 60 * sessions[i].duration_minutes) <= 60

\* C12 as amended: EndSession records the whole minutes of the difference
\* between end and start, the fraction of a minute dropped.
C12_DurationTruncated ==
    \A i \in DOMAIN sessions :
        sessions[i].status = "completed" =>
            /\ Elapsed(sessions[i]) >= 0
            /\ 60 * sessions[i].duration_minutes <= Elapsed(sessions[i])
            /\ Elapsed(sessions[i]) < 60 * (sessions[i].duration_minutes + 1)

\* A session ended 105 seconds after its start: one whole minute, and nearer
\* to two.
C12_Witness ==
    \E i \in DOMAIN sessions :
        /\ sessions[i].status = "completed"
        /\ Elapsed(sessions[i]) = 105
        /\ sessions[i].duration_minutes = 1

MessageOfClass(step) ==
    CASE step = "rate_limit" -> rate_limit_message
      [] step = "api_error" -> api_error_message
      [] OTHER -> unexpected_message

\* C14: every failure of the upstream call makes the exchange fail with an
\* AIServiceException (503) that carries the fixed message of the class of
\* the failure: rate-limited, API error or unknown. The three messages are
\* pairwise distinct, a rate-limit error gets the rate-limit message, and no
\* part of the message is the text of the upstream error.
C14_FixedMessagePerClass ==
    /\ rate_limit_message # api_error_message
    /\ rate_limit_message # unexpected_message
    /\ api_error_message # unexpected_message
    /\ (last.op \in Exchange /\ last.cause.step \in UpstreamFailures) =>
          /\ last.code = 503
          /\ last.detail = MessageOfClass(last.cause.step)
          /\ \A k \in DOMAIN last.detail : last.detail[k] # last.cause.text

\* The upstream call of an exchange raised a rate-limit error whose text is
\* "quota", and the client was told of too many requests.
C14_Witness ==
    /\ last.op \in Exchange
    /\ last.cause.step = "rate_limit"
    /\ last.cause.text = "quota"
    /\ last.detail = rate_limit_message

\* C15: no error response carries the text of an error raised by an external
\* collaborator (text generation, speech services, meeting service, payment
\* provider): the detail sent to the client has no part that is that text,
\* so that two runs that differ only in the text answer alike.
C15_NoUpstreamTextInResponse ==
    (last.code # 200 /\ last.cause.step # "none") =>
        \A k \in DOMAIN last.detail : last.detail[k] # last.cause.text

\* C16: the operations on the conversation store are scoped by the user: an
\* exchange, answered or failed, and an EndSession with its clear, done for
\* one user leave the history of every other user as it was; so does the
\* clear by itself, whatever the store holds.
C16_OtherUsersUntouched ==
    [][/\ last'.op \in Exchange \cup {"end"} =>
            \A b \in Users \ {last'.user} :
                HistoryFor(conversation_history', b)
                    = HistoryFor(conversation_history, b)
       /\ \A a \in Users : \A b \in Users \ {a} :
            HistoryFor(clear_conversation_history(conversation_history', a).store, b)
                = HistoryFor(conversation_history', b)]_vars

\* A user's session was ended and the history cleared while the other user
\* held the two entries of an exchange.
C16_Witness ==
    /\ last.op = "end"
    /\ last.code = 200
    /\ sessions[last.sid].message_count > 0
    /\ HistoryFor(conversation_history, last.user) = << >>
    /\ \E b \in Users \ {last.user} :
          Len(HistoryFor(conversation_history, b)) = 2

\* The language the specification names for a start: the preference of the
\* request if one was sent, else the default the user registered, else "en".
ClaimedLanguage(preferred, u) ==
    IF preferred # NoLanguage THEN preferred
    ELSE IF StoredLanguage(u) # "" THEN StoredLanguage(u)
    ELSE "en"

\* C17: a StartSession that succeeds creates a session row in state active
\* whose language is the effective language (the preference of the request,
\* else the user's stored default, else "en") and persists exactly one
\* message of that session: an assistant message with the greeting of that
\* language, the first entry of the session's log.
C17_StartCreatesGreetedSession ==
    [][\A u \in Users, preferred \in PreferredLanguages,
          platform \in Platforms :
          start_ai_session(u, preferred, platform, "none", "",
                           Greeting.maxSessions, Greeting.parallel) =>
              LET sid == Len(sessions) + 1
                  language == ClaimedLanguage(preferred, u)
              IN  /\ last'.code = 200
                  /\ Len(sessions') = sid
                  /\ sessions'[sid].user_id = u
                  /\ sessions'[sid].status = "active"
                  /\ sessions'[sid].language = language
                  /\ Len(messages'[sid]) = 1
                  /\ messages'[sid][1].role = "assistant"
                  /\ messages'[sid][1].content = language_greetings[language]
                  /\ \A j \in 1..Len(sessions) :
                        messages'[j] = messages[j]]_vars

\* A session was started with the preference "de" by the user whose stored
\* default is "fr": it is active in German and its log is the German
\* greeting.
C17_Witness ==
    /\ last.op = "start"
    /\ last.code = 200
    /\ last.user = "u1"
    /\ sessions[last.sid].status = "active"
    /\ sessions[last.sid].language = "de"
    /\ messages[last.sid] = <<Row("assistant", language_greetings["de"], "de")>>

\* C18: in every exchange the language that selects the system prompt and
\* that is recorded on both persisted turns is the one detected from the
\* text of that message, whatever the language of the session and of the
\* earlier messages; an exchange, answered or not, leaves the language of
\* every session record as it was.
C18_LanguagePerMessage ==
    [][last'.op \in Exchange =>
          /\ \A i \in DOMAIN sessions :
                sessions'[i].language = sessions[i].language
          /\ last'.code = 200 =>
                LET rows == messages'[last'.sid]
                    n == Len(rows)
                    language == detect_language(rows[n - 1].content)
                IN  /\ n = Len(messages[last'.sid]) + 2
                    /\ rows[n - 1].role = "user"
                    /\ rows[n].role = "assistant"
                    /\ rows[n - 1].language = language
                    /\ rows[n].language = language
                    /\ last'.prompt =
                          get_system_prompt(language,
                                            UserContextOf(last'.user))]_vars

\* A session in French holds a first exchange recorded as German and a
\* second one, just answered, recorded as English.
C18_Witness ==
    /\ last.op \in Exchange
    /\ last.code = 200
    /\ sessions[last.sid].language = "fr"
    /\ Len(messages[last.sid]) = 5
    /\ messages[last.sid][2].language = "de"
    /\ messages[last.sid][3].language = "de"
    /\ messages[last.sid][4].language = "en"
    /\ messages[last.sid][5].language = "en"
    /\ last.prompt = get_system_prompt("en", UserContextOf(last.user))

\* C19: the system prompt for a language code outside the prompt table is
\* the system prompt for "en" with the same context, whatever the context,
\* absent or empty too: the English base prompt with the same clauses, never
\* an error.
C19_UnsupportedCodeGetsDefaultPrompt ==
    (probe.fn = "get_system_prompt" /\ probe.language \notin prompt_languages) =>
        /\ probe.result = get_system_prompt("en", probe.user_context)
        /\ probe.result[1] = base_prompts["en"]

\* The prompt was asked for "ar", a language the detector supports and the
\* prompt table does not hold, with a context that names interests.
C19_Witness ==
    /\ probe.fn = "get_system_prompt"
    /\ probe.language = "ar"
    /\ "interests" \in DOMAIN probe.user_context
    /\ probe.user_context["interests"] = "chess"
    /\ probe.result =
          <<base_prompts["en"], "\n\nUser interests: ", "chess">>

\* The message holds the keyword in some casing: each character of a stretch
\* of it is the keyword's or its upper-case form.
ContainsCased(message, keyword) ==
    \E k \in 0..(Len(message) - Len(keyword)) :
        \A j \in DOMAIN keyword :
            <<message[k + j]>> \in {<<keyword[j]>>, CharUpper(keyword[j])}

\* C20: is_crisis_message does not depend on the case of letters: for every
\* message, changing the case of any one of its characters does not change
\* the result, and a message that holds a trigger phrase in any casing is a
\* crisis message.
C20_CaseInsensitive ==
    probe.fn = "is_crisis_message" =>
        /\ \A k \in DOMAIN probe.message :
              is_crisis_message(SwapcaseAt(probe.message, k)) = probe.result
        /\ (\E keyword \in crisis_keywords :
                ContainsCased(probe.message, keyword)) => probe.result

\* C21: the greeting of every supported language code is a text that is not
\* empty, and no other supported code has the same greeting text.
C21_GreetingsDistinct ==
    (probe.fn = "get_greeting" /\ probe.language_code \in supported_languages) =>
        /\ Len(probe.result) > 0
        /\ \A other \in supported_languages \ {probe.language_code} :
              get_greeting(other) # probe.result

\* The greeting was asked for Swedish: it begins as the Danish one does,
\* "Hej! J", and goes on differently.
C21_Witness ==
    /\ probe.fn = "get_greeting"
    /\ probe.language_code = "sv"
    /\ SubSeq(probe.result, 1, 6) = <<"H", "e", "j", "!", " ", "J">>
    /\ SubSeq(probe.result, 1, 6) = SubSeq(language_greetings["da"], 1, 6)
    /\ probe.result # language_greetings["da"]

\* Two exchanges of the session were answered and each found the counter at
\* 0: both were in flight at once, and no EndSession came between them.
BothInFlightAnswered(sid) ==
    /\ sessions[sid].status = "active"
    /\ exchanges[sid] = 2
    /\ sessions[sid].message_count = 2

\* The history of the user holds the turns of the two exchanges answered.
HoldsBothTurns(u) == Len(HistoryFor(conversation_history, u)) = 4

C23_CompletedIsTerminal ==
    [][\A i \in DOMAIN sessions :
          sessions[i].status = "completed" =>
              /\ sessions'[i].status = "completed"
              /\ messages'[i] = messages[i]
              /\ sessions'[i].message_count = sessions[i].message_count
              /\ (Len(suspended') < Len(suspended) /\ last'.sid = i) =>
                    conversation_history' = conversation_history]_vars

\* The exchange just attempted gained the store the user turn and the reply,
\* and the log of its session the same two rows with the counter raised by 2.
ExchangeStored(u, sid) ==
    LET history == HistoryFor(conversation_history', u)
        rows == messages'[sid]
        n == Len(rows)
        h == Len(history)
    IN  /\ h >= 2
        /\ history = LastN(HistoryFor(conversation_history, u)
                              \o SubSeq(history, h - 1, h),
                          max_history_length)
        /\ history[h - 1].role = "user"
        /\ history[h].role = "assistant"
        /\ n = Len(messages[sid]) + 2
        /\ SubSeq(rows, 1, n - 2) = messages[sid]
        /\ rows[n - 1].role = "user"
        /\ rows[n - 1].content = history[h - 1].content
        /\ rows[n].role = "assistant"
        /\ rows[n].content = history[h].content
        /\ sessions'[sid].message_count = sessions[sid].message_count + 2

\* C24: the in-memory store and the persisted log stay in step: after every
\* exchange attempt, text or voice, either the store gained the user turn
\* and the reply and the log gained the same two rows with the counter
\* raised by 2, or none of the three changed.
C24_StoreAndLogInStep ==
    [][last'.op \in Exchange =>
          \/ /\ last'.sid \in DOMAIN sessions
             /\ ExchangeStored(last'.user, last'.sid)
          \/ /\ conversation_history' = conversation_history
             /\ messages' = messages
             /\ Counters(sessions') = Counters(sessions)]_vars

\* The sessions of a user that are active.
ActiveSessionsOf(u) ==
    {i \in DOMAIN sessions :
        sessions[i].user_id = u /\ sessions[i].status = "active"}

\* C25: at any time each user has at most one session in state active: a
\* StartSession for a user who has an active session does not leave two
\* active sessions of that user.
C25_OneActiveSessionPerUser ==
    \A u \in Users : Cardinality(ActiveSessionsOf(u)) <= 1

\* The number of entries of a history that carry the role.
CountRole(history, role) ==
    Cardinality({k \in 1..Len(history) : history[k].role = role})

\* get_conversation_summary: nothing for a user without history, else the
\* sentence with the number of user entries and of assistant entries.
get_conversation_summary(store, u) ==
    LET history == HistoryFor(store, u)
    IN  IF history = <<>>
        THEN NoValue
        ELSE <<"Conversation: ", CountRole(history, "user"),
               " user messages, ", CountRole(history, "assistant"),
               " AI responses">>

\* A history of whole exchanges: user entry, assistant entry, and so on.
Alternates(history) ==
    /\ Len(history) > 0
    /\ Len(history) % 2 = 0
    /\ \A k \in 1..Len(history) :
         history[k].role = (IF k % 2 = 1 THEN "user" ELSE "assistant")

\* C26: every history in the store is non-empty, of even length, and
\* alternates user and assistant entries from a user entry on; the two counts
\* of the summary are equal, and the summary is nothing exactly for a user
\* who has no history.
C26_HistoriesAlternate ==
    /\ \A u \in DOMAIN conversation_history :
         Alternates(conversation_history[u])
    /\ \A u \in Users :
         LET summary == get_conversation_summary(conversation_history, u)
         IN  /\ (summary = NoValue) <=> (u \notin DOMAIN conversation_history)
             /\ summary # NoValue => summary[2] = summary[4]

\* The window has been cut and the summary counts ten entries of each role.
C26_Witness ==
    \E u \in Users :
        /\ Len(chron[u]) > max_history_length
        /\ get_conversation_summary(conversation_history, u)
             = <<"Conversation: ", 10, " user messages, ", 10,
                 " AI responses">>

\* Session sid was ended with success.
Completed(sid) ==
    sid \in DOMAIN sessions /\ sessions[sid].status = "completed"

\* The listening loop that the start of session sid created has returned.
LoopReturned(sid) ==
    sid \in DOMAIN listening /\ listening[sid].pc = "done"

\* C27: once a session is ended with success, the listening loop started for
\* it eventually returns, whatever sessions were started and ended and
\* whenever.
C27_LoopTerminates ==
    \A sid \in 1..LoopSessions : Completed(sid) ~> LoopReturned(sid)

\* Every session is ended, and a listening loop still holds an object in
\* status ai_joined that the dictionary no longer holds.
C27_Orphaned ==
    /\ Len(sessions) = LoopSessions
    /\ \A sid \in DOMAIN sessions : Completed(sid)
    /\ \E k \in DOMAIN listening :
          /\ listening[k].pc # "done"
          /\ listening[k].status = "ai_joined"

\* The request just answered was refused or failed.
Failed(op) == last'.op = op /\ last'.code # 200

\* C28: an EndSession that fails on an active session of the caller leaves
\* the session active, the caller's history in the store and the status of
\* the session's meeting room as they were; a StartSession that fails adds no
\* active session record.
C28_FailuresLeaveNoTrace ==
    [][/\ (Failed("end") /\ ActiveSession(last'.sid, last'.user)) =>
            /\ sessions'[last'.sid].status = "active"
            /\ conversation_history' = conversation_history
            /\ active_meetings'[sessions[last'.sid].meeting_id].status
                 = active_meetings[sessions[last'.sid].meeting_id].status
       /\ Failed("start") =>
            ~(/\ Len(sessions') > Len(sessions)
              /\ sessions'[Len(sessions')].status = "active")]_vars

\* No voice request on session sid waits at its await.
NoneInFlight(sid) == \A k \in DOMAIN suspended : suspended[k].sid # sid

\* C29: a session with no request in flight has one persisted message more
\* than its counter says: the greeting and two rows for each counted exchange.
C29_LogMatchesCounter ==
    \A sid \in DOMAIN sessions :
        NoneInFlight(sid) =>
            Len(messages[sid]) = 1 + sessions[sid].message_count

\* Session sid exists and belongs to somebody other than u.
Foreign(sid, u) == sid \in DOMAIN sessions /\ sessions[sid].user_id # u

\* C30: a message, a voice message, an end or a listing that names the
\* session of another user is refused, and leaves the record and the log of
\* that session and the whole Conversation Store as they were.
C30_OwnSessionsOnly ==
    [][(/\ last'.op \in {"text", "voice", "end", "list"}
        /\ Foreign(last'.sid, last'.user)) =>
            /\ last'.code # 200
            /\ session_messages(last'.user, last'.sid).rows = << >>
            /\ sessions'[last'.sid] = sessions[last'.sid]
            /\ messages'[last'.sid] = messages[last'.sid]
            /\ conversation_history' = conversation_history]_vars

\* A request of each kind on the active session of another user, which has
\* exchanged messages, has been refused.
C30_Refused(op) ==
    /\ last.op = op
    /\ last.code # 200
    /\ Foreign(last.sid, last.user)
    /\ sessions[last.sid].status = "active"
    /\ Len(messages[last.sid]) >= 3
    /\ HistoryFor(conversation_history, sessions[last.sid].user_id) # << >>

C30_Witness == C30_Refused("end")

====
